---- MODULE Spec2Model ----
(***************************************************************************)
(* ChunkManager (src/core/ChuckManager.ts): chunked-upload sessions.       *)
(*                                                                         *)
(* Every async method is cut at its awaits: one action per synchronous     *)
(* run of code between two awaits.  The scratch directory is modelled by   *)
(* the session directories that exist, the metadata.json and chunk-<i>     *)
(* files in them, and the target files.  A file's content is a sequence of *)
(* payload blocks; <<>> is a file that was opened for writing (created or  *)
(* truncated) and not yet written.                                         *)
(***************************************************************************)
EXTENDS Integers, Sequences, FiniteSets, TLC

VARIABLES
    sessions,   \* ChunkManager.sessions : Map<string, UploadSession>
    dirs,       \* the session directories <basePath>/<dir> that exist
    meta,       \* dir -> content of <basePath>/<dir>/metadata.json
    chunks,     \* dir -> (index -> content of <basePath>/<dir>/chunk-<index>)
    targets,    \* targetPath -> content of the assembled file
    pc,         \* per call slot: position inside the async method
    cur,        \* per call slot: the call being made (method and arguments)
    res,        \* per call slot: how the last call settled
    loc,        \* per call slot: the locals that live across awaits
    jr,         \* history: per id, the chunks accepted since startSession
    pre,        \* history: per call slot, memory and disk when the call began
    rec,        \* history: what the manager reported before the last restart
    nops,       \* number of calls made so far
    pipes,      \* the fs.WriteStreams of receiveChunk that are not yet flushed
    disk,       \* LocalStorageDriver: path under root -> content of the file
    dpc,        \* LocalStorageDriver: position inside the method being run
    dcur,       \* LocalStorageDriver: the call being made
    dres,       \* LocalStorageDriver: how the last call settled
    dloc,       \* LocalStorageDriver.writeStream: the source and the write stream
    dhist,      \* history: the disk when the call began, the content last
                \* written to each file, the files deleted since
    drivers,    \* StorageManager.drivers : Record<string, StorageDriver>
    defaultDisk,\* StorageManager.defaultDisk
    mcur,       \* StorageManager: the last call made
    mres        \* StorageManager: what the last call returned or threw

\* the state of the ChunkManager and of its scratch directory
cmVars == <<sessions, dirs, meta, chunks, targets, pc, cur, res, loc, jr, pre,
            rec, nops, pipes>>

\* the state of the LocalStorageDriver and of its root directory
drvVars == <<disk, dpc, dcur, dres, dloc, dhist>>

\* the state of the StorageManager
mgrVars == <<drivers, defaultDisk, mcur, mres>>

vars == <<cmVars, drvVars, mgrVars>>

---------------------------------------------------------------------------
(* Bounds of the model *)

\* largest totalChunks of a bounded session; indices range over -1..MaxChunks
MaxChunks == 2
\* number of calls made in one run
MaxOps == 4
\* number of calls made in one run of two overlapping callers
MaxConcOps == 3
\* number of calls made to the LocalStorageDriver in one run
MaxDriverOps == 4

Procs == {1, 2}
SeqProcs == {1}
Ids == {"a", "b"}
SeqIds == {"a"}
\* an id that is not a plain name: path.join reads it as a path
AliasIds == {"./b"}
AllIds == Ids \cup AliasIds
\* the ids of two callers that each work on a session of their own
IsoIds == {"b", "./b"}
\* the target path the caller of the session of id chooses for it
IsoTarget(id) == IF id = "b" THEN "out" ELSE "other"
Names == {"f.txt"}
Visibilities == {"public"}
\* chunk payloads that are Buffers, each named by its bytes
Payloads == {"A", "B"}
\* chunk payloads that are Readable streams, each named by the bytes it emits
Readables == {"R"}
Indices == (0 - 1)..MaxChunks

---------------------------------------------------------------------------
(* Values *)

\* totalChunks: a finite number, Infinity, or null (what JSON makes of Infinity)
Bounded(n) == [k |-> "num", n |-> n]
Infinity == [k |-> "inf", n |-> 0]
JsonNull == [k |-> "null", n |-> 0]
Totals == {Bounded(n) : n \in 1..MaxChunks} \cup {Infinity}

\* path.join(this.basePath, `${uploadId}-${filename}`)
UploadTarget(uploadId, filename) == uploadId \o "-" \o filename
TargetPaths == {"out"} \cup {UploadTarget(i, f) : i \in Ids, f \in Names}

\* id.split('/'): the segments path.join sees in an id
PathSegments(id) == IF id = "./b" THEN <<".", "b">> ELSE <<id>>

RECURSIVE Normalize(_)
\* path.normalize, which path.join applies to its result: the "." segments
\* are dropped
Normalize(segs) ==
    IF segs = <<>> THEN <<>>
    ELSE IF Head(segs) = "." THEN Normalize(Tail(segs))
    ELSE <<Head(segs)>> \o Normalize(Tail(segs))

RECURSIVE JoinSegments(_)
\* the segments joined with '/'
JoinSegments(segs) ==
    IF Len(segs) = 1 THEN segs[1]
    ELSE segs[1] \o "/" \o JoinSegments(Tail(segs))

\* getSessionDir: path.join(this.basePath, id), as a path under basePath
getSessionDir(id) == JoinSegments(Normalize(PathSegments(id)))

Range(s) == {s[i] : i \in 1..Len(s)}

\* an add that does not look for the element first
SetAddAlways(s, x) == Append(s, x)

\* Set.prototype.add on a JS Set, which keeps insertion order
SetAdd(s, x) == IF x \in Range(s) THEN s ELSE Append(s, x)

Min(S) == CHOOSE x \in S : \A y \in S : x <= y

RECURSIVE SortAsc(_)
\* Array.prototype.sort((a, b) => a - b) of a set of numbers
SortAsc(S) == IF S = {} THEN <<>> ELSE <<Min(S)>> \o SortAsc(S \ {Min(S)})

\* new Set(array): the distinct elements in first-occurrence order
RECURSIVE ToSet(_)
ToSet(a) == IF a = <<>> THEN <<>> ELSE SetAdd(ToSet(SubSeq(a, 1, Len(a) - 1)), a[Len(a)])

\* JSON.stringify of a number: Infinity is written as null
JsonNumber(t) == IF t.k = "inf" THEN JsonNull ELSE t

\* saveMetadata's record { ...session, receivedChunks: Array.from(set) } as JSON
Serialize(s) ==
    [id |-> s.id, originalName |-> s.originalName,
     totalChunks |-> JsonNumber(s.totalChunks),
     receivedChunks |-> s.receivedChunks,
     targetPath |-> s.targetPath, visibility |-> s.visibility]

\* a reload that forgets the received chunks
DeserializeEmpty(m) == [m EXCEPT !.receivedChunks = <<>>]

\* loadSessionsFromDisk's { ...metadata, receivedChunks: new Set(...) }
Deserialize(m) == [m EXCEPT !.receivedChunks = ToSet(m.receivedChunks)]

NewSession(id, total, name, target, vis) ==
    [id |-> id, originalName |-> name, totalChunks |-> total,
     receivedChunks |-> <<>>, targetPath |-> target, visibility |-> vis]

RECURSIVE Gcd(_, _)
Gcd(a, b) == IF b = 0 THEN a ELSE Gcd(b, a % b)

\* size / totalChunks, not made a percentage
Ratio(size, t) ==
    CASE t.k = "inf" -> [k |-> "num", n |-> 0, d |-> 1]
      [] t.k = "null" -> IF size = 0 THEN [k |-> "nan", n |-> 0, d |-> 1]
                                     ELSE [k |-> "inf", n |-> 0, d |-> 1]
      [] OTHER -> [k |-> "num", n |-> size \div Gcd(size, t.n),
                                d |-> t.n \div Gcd(size, t.n)]

\* (size / totalChunks) * 100 in IEEE arithmetic, kept as a reduced fraction;
\* x / Infinity is 0, null is coerced to 0, x / 0 is Infinity and 0 / 0 is NaN
Quotient(size, t) ==
    CASE t.k = "inf" -> [k |-> "num", n |-> 0, d |-> 1]
      [] t.k = "null" -> IF size = 0 THEN [k |-> "nan", n |-> 0, d |-> 1]
                                     ELSE [k |-> "inf", n |-> 0, d |-> 1]
      [] OTHER -> [k |-> "num", n |-> (size * 100) \div Gcd(size * 100, t.n),
                                d |-> t.n \div Gcd(size * 100, t.n)]

Zero == [k |-> "num", n |-> 0, d |-> 1]

\* getProgress(id) on a session table
ProgressOf(tbl, id) ==
    IF id \notin DOMAIN tbl THEN Zero
    ELSE Quotient(Len(tbl[id].receivedChunks), tbl[id].totalChunks)

\* function update that may add the key
Put(f, key, v) == [x \in DOMAIN f \cup {key} |-> IF x = key THEN v ELSE f[x]]
Drop(f, key) == [x \in DOMAIN f \ {key} |-> f[x]]

---------------------------------------------------------------------------
(* Values of the LocalStorageDriver and of the StorageManager *)

\* the visibility scopes, in the order read, delete and getMetadata try them
Scopes == <<"public", "private", "test">>
ScopeSet == {Scopes[i] : i \in 1..3}
Files == {"hello.txt"}
\* what write is given as content
Contents == {"A", "B"}
\* the blocks the source stream of writeStream emits before it ends
StreamBlocks == <<"S", "T">>

\* resolvePath without a path generator: <root>/<visibility>/<filePath>
ResolvePath(filePath, visibility) == visibility \o "/" \o filePath

\* `${fullPath}.tmp`
TempPath(fullPath) == fullPath \o ".tmp"

\* the loop of read, delete and getMetadata over public, private, test with
\* its await this.exists(filePath, visibility): the first scope that holds
\* the file, "none" when no scope does
Located(d, filePath) ==
    LET hits == {i \in 1..3 : ResolvePath(filePath, Scopes[i]) \in DOMAIN d}
    IN  IF hits = {} THEN "none" ELSE Scopes[Min(hits)]

\* fs.rename(sourcePath, targetPath): the target is replaced
Rename(d, sourcePath, targetPath) ==
    Put(Drop(d, sourcePath), targetPath, d[sourcePath])

\* the disk after setVisibility(filePath, visibility) has resolved: the file
\* getMetadata found is renamed into the scope asked for, unless it is there
SetVisibilityOn(d, filePath, visibility) ==
    IF Located(d, filePath) = visibility THEN d
    ELSE Rename(d, ResolvePath(filePath, Located(d, filePath)),
                   ResolvePath(filePath, visibility))

NoDriverCall == [op |-> "none", filePath |-> "hello.txt", visibility |-> "public",
                 content |-> "A"]
NoDriverRes == [status |-> "none", value |-> <<>>]
\* writeStream's source (what it has emitted, and how far) and the write
\* stream of the temporary file (its descriptor, and the blocks piped to it
\* that it has not written yet)
NoStreams == [source |-> "none", sent |-> 0, fd |-> "none", destroyed |-> FALSE,
              buf |-> <<>>, temp |-> ""]
NoDriverHistory == [pre |-> <<>>, last |-> <<>>, deleted |-> {},
                    uncaught |-> FALSE, prev |-> NoDriverCall, prevOk |-> FALSE,
                    n |-> 0]

\* the disks of src/config.ts, which the constructor registers
ConfigDisks == {"local", "public", "test"}
\* the names a caller passes for a disk; "constructor" is a property every
\* object inherits from Object.prototype
DiskNames == {"local", "s3", "notExist", "constructor"}
ObjectPrototype == {"constructor"}
\* the drivers a caller registers
Drivers == {"custom"}
Undefined == "undefined"

\* this.drivers[name] on the plain object this.drivers: its own property,
\* else the property it inherits, else undefined
DriverAt(tbl, name) ==
    IF name \in DOMAIN tbl THEN tbl[name]
    ELSE IF name \in ObjectPrototype THEN "Object.prototype." \o name
    ELSE Undefined

NoManagerCall == [op |-> "none", name |-> Undefined]
NoManagerRes == [status |-> "none", value |-> Undefined, before |-> "local"]

---------------------------------------------------------------------------
(* Call slots *)

NoCall == [kind |-> "none", id |-> "a", index |-> 0, data |-> "A"]
NoRes == [status |-> "none", expected |-> JsonNull, received |-> 0,
          path |-> "", progress |-> Zero, injected |-> FALSE]
NoLoc == [meta |-> <<>>, idxs |-> <<>>, todo |-> {}, dir |-> "a", tgt |-> ""]
NoJournal == [state |-> "none", total |-> JsonNull, sent |-> <<>>,
              finFailed |-> FALSE, racing |-> FALSE]
NoRecovery == [at |-> "none", sessions |-> <<>>]
NoPre == [sessions |-> <<>>, meta |-> <<>>, chunks |-> <<>>, inflight |-> {},
          dirs |-> {}, targets |-> <<>>, life |-> "none", prev |-> "none"]

Call(kind, id, index, data) ==
    [kind |-> kind, id |-> id, index |-> index, data |-> data]

Ok == [NoRes EXCEPT !.status = "ok"]
Failed(e) == [NoRes EXCEPT !.status = e]

CanCall(p) == pc[p] \in {"idle", "done"} /\ nops < MaxOps

InFlight == {q \in Procs : pc[q] \notin {"idle", "done"}}

\* a startSession(id) is in flight
Starting(id) ==
    \E q \in InFlight : cur[q].kind = "startSession" /\ cur[q].id = id

Snapshot == [sessions |-> sessions, meta |-> meta, chunks |-> chunks,
             inflight |-> InFlight, dirs |-> dirs, targets |-> targets,
             life |-> "none", prev |-> "none"]

\* the call begins: its arguments are recorded, and the state it began in
Begin(p, c) ==
    /\ cur' = [cur EXCEPT ![p] = c]
    /\ pre' = [pre EXCEPT ![p] = [Snapshot EXCEPT !.life = jr[c.id].state,
                                                  !.prev = cur[p].kind]]
    /\ nops' = nops + 1
    /\ rec' = IF c.kind \in {"loadSessionsFromDisk", "getProgress"}
              THEN rec ELSE NoRecovery

\* the call settles (resolves or rejects) with r
Settle(p, r) ==
    /\ pc' = [pc EXCEPT ![p] = "done"]
    /\ res' = [res EXCEPT ![p] = r]
    /\ loc' = [loc EXCEPT ![p] = NoLoc]

Goto(p, label) ==
    /\ pc' = [pc EXCEPT ![p] = label]
    /\ res' = [res EXCEPT ![p] = NoRes]

Init ==
    /\ sessions = <<>>
    /\ dirs = {}
    /\ meta = <<>>
    /\ chunks = [i \in Ids |-> <<>>]
    /\ targets = <<>>
    /\ pc = [p \in Procs |-> "idle"]
    /\ cur = [p \in Procs |-> NoCall]
    /\ res = [p \in Procs |-> NoRes]
    /\ loc = [p \in Procs |-> NoLoc]
    /\ jr = [i \in AllIds |-> NoJournal]
    /\ pre = [p \in Procs |-> NoPre]
    /\ rec = NoRecovery
    /\ nops = 0
    /\ pipes = {}
    /\ disk = <<>>
    /\ dpc = "idle"
    /\ dcur = NoDriverCall
    /\ dres = NoDriverRes
    /\ dloc = NoStreams
    /\ dhist = NoDriverHistory
    /\ drivers = [n \in ConfigDisks |-> "LocalStorageDriver"]
    /\ defaultDisk = "local"
    /\ mcur = NoManagerCall
    /\ mres = NoManagerRes

---------------------------------------------------------------------------
(* startSession *)

\* startSession up to its first await: the session replaces whatever the
\* table held under id, and saveMetadata has built its record
StartSession(p, id, total, name, target, vis) ==
    /\ CanCall(p)
    /\ Begin(p, Call("startSession", id, 0, "A"))
    /\ sessions' = Put(sessions, id, NewSession(id, total, name, target, vis))
    /\ loc' = [loc EXCEPT ![p] =
                 [NoLoc EXCEPT !.meta = <<Serialize(sessions'[id])>>]]
    /\ jr' = [jr EXCEPT ![id] = [NoJournal EXCEPT !.state = "live", !.total = total]]
    /\ Goto(p, "sm_ensure")
    /\ UNCHANGED <<dirs, meta, chunks, targets, pipes, drvVars, mgrVars>>

\* a startUpload that derives no target path from id and name
StartUploadOut(p, uploadId, total, filename, vis) ==
    StartSession(p, uploadId, total, filename, "out", vis)

\* startUpload: startSession with the target path derived from id and name
StartUpload(p, uploadId, total, filename, vis) ==
    StartSession(p, uploadId, total, filename, UploadTarget(uploadId, filename), vis)

\* saveMetadata: await fs.ensureDir(sessionDir)
SaveMetadataEnsureDir(p) ==
    /\ pc[p] = "sm_ensure"
    /\ dirs' = dirs \cup {getSessionDir(cur[p].id)}
    /\ pc' = [pc EXCEPT ![p] = "sm_open"]
    /\ UNCHANGED <<sessions, meta, chunks, targets, cur, res, loc, jr, pre, rec, nops, pipes, drvVars, mgrVars>>

\* saveMetadata: fs.writeJSON opens metadata.json for writing (creates or
\* truncates it); without the directory the open fails with ENOENT
SaveMetadataOpen(p) ==
    /\ pc[p] = "sm_open"
    /\ IF getSessionDir(cur[p].id) \in dirs
       THEN /\ meta' = Put(meta, getSessionDir(cur[p].id), <<>>)
            /\ pc' = [pc EXCEPT ![p] = "sm_write"]
            /\ UNCHANGED <<res, loc>>
       ELSE /\ Settle(p, Failed("IOError"))
            /\ UNCHANGED meta
    /\ UNCHANGED <<sessions, dirs, chunks, targets, cur, jr, pre, rec, nops, pipes, drvVars, mgrVars>>

\* chunk instanceof Readable
IsReadable(chunk) == chunk \in Readables

\* after saveMetadata: startSession goes on to ensureDir, receiveChunk to
\* the pipe of a Readable or to the write of a Buffer
AfterSave(p) ==
    IF cur[p].kind = "startSession" THEN "ss_ensure"
    ELSE IF IsReadable(cur[p].data) THEN "rc_pipe" ELSE "rc_open"

\* createWriteStream(chunkPath) of the call of slot p, made as call number
\* nops: the stream opens its file later, and writes what is piped to it
\* after that
WriteStream(p) ==
    [by |-> p, n |-> nops, id |-> cur[p].id, index |-> cur[p].index,
     data |-> cur[p].data, fd |-> "pending"]

\* saveMetadata: fs.writeJSON writes the record built when saveMetadata was
\* called; a file unlinked since the open is not brought back by the write.
\* receiveChunk with a Readable goes on, in the same turn, to create the
\* write stream and pipe the chunk to it
SaveMetadataWrite(p) ==
    /\ pc[p] = "sm_write"
    /\ meta' = IF getSessionDir(cur[p].id) \in DOMAIN meta
               THEN [meta EXCEPT ![getSessionDir(cur[p].id)] = loc[p].meta] ELSE meta
    /\ pc' = [pc EXCEPT ![p] = AfterSave(p)]
    /\ pipes' = IF AfterSave(p) = "rc_pipe" THEN pipes \cup {WriteStream(p)} ELSE pipes
    /\ UNCHANGED <<sessions, dirs, chunks, targets, cur, res, loc, jr, pre, rec, nops,
                   drvVars, mgrVars>>

\* startSession: await fs.ensureDir(this.getSessionDir(id)), then it resolves
StartSessionEnsureDir(p) ==
    /\ pc[p] = "ss_ensure"
    /\ dirs' = dirs \cup {getSessionDir(cur[p].id)}
    /\ Settle(p, Ok)
    /\ UNCHANGED <<sessions, meta, chunks, targets, cur, jr, pre, rec, nops, pipes, drvVars, mgrVars>>

---------------------------------------------------------------------------
(* receiveChunk *)

\* a receiveChunk that makes the session directory before it looks the
\* session up
ReceiveChunkEager(p, id, index, data) ==
    /\ CanCall(p)
    /\ Begin(p, Call("receiveChunk", id, index, data))
    /\ dirs' = dirs \cup {getSessionDir(id)}
    /\ IF id \notin DOMAIN sessions
       THEN /\ Settle(p, Failed("UploadSessionNotFoundError"))
            /\ UNCHANGED sessions
       ELSE /\ sessions' = [sessions EXCEPT ![id].receivedChunks = SetAdd(@, index)]
            /\ loc' = [loc EXCEPT ![p] =
                         [NoLoc EXCEPT !.meta = <<Serialize(sessions'[id])>>]]
            /\ Goto(p, "sm_ensure")
    /\ UNCHANGED <<meta, chunks, targets, jr, pipes, drvVars, mgrVars>>

\* receiveChunk up to its first await: the lookup, then the index is added
\* to the received set and saveMetadata builds its record; the index is not
\* compared with anything
ReceiveChunk(p, id, index, data) ==
    /\ CanCall(p)
    /\ Begin(p, Call("receiveChunk", id, index, data))
    /\ IF id \notin DOMAIN sessions
       THEN /\ Settle(p, Failed("UploadSessionNotFoundError"))
            /\ UNCHANGED sessions
       ELSE /\ sessions' = [sessions EXCEPT ![id].receivedChunks = SetAdd(@, index)]
            /\ loc' = [loc EXCEPT ![p] =
                         [NoLoc EXCEPT !.meta = <<Serialize(sessions'[id])>>]]
            /\ Goto(p, "sm_ensure")
    /\ UNCHANGED <<dirs, meta, chunks, targets, jr, pipes, drvVars, mgrVars>>

\* appendChunk: receiveChunk under another name
AppendChunk(p, uploadId, index, data) == ReceiveChunk(p, uploadId, index, data)

\* fs.writeFile(chunkPath, chunk) opens chunk-<index> for writing (creates
\* or truncates it); without the directory the open fails with ENOENT
ReceiveChunkOpen(p) ==
    /\ pc[p] = "rc_open"
    /\ IF getSessionDir(cur[p].id) \in dirs
       THEN /\ chunks' = [chunks EXCEPT ![getSessionDir(cur[p].id)] = Put(@, cur[p].index, <<>>)]
            /\ pc' = [pc EXCEPT ![p] = "rc_write"]
            /\ UNCHANGED <<res, loc>>
       ELSE /\ Settle(p, Failed("IOError"))
            /\ UNCHANGED chunks
    /\ UNCHANGED <<sessions, dirs, meta, targets, cur, jr, pre, rec, nops, pipes, drvVars, mgrVars>>

\* fs.writeFile writes the bytes and receiveChunk resolves
ReceiveChunkWrite(p) ==
    /\ pc[p] = "rc_write"
    /\ chunks' = IF cur[p].index \in DOMAIN chunks[getSessionDir(cur[p].id)]
                 THEN [chunks EXCEPT ![getSessionDir(cur[p].id)][cur[p].index] = <<cur[p].data>>]
                 ELSE chunks
    /\ jr' = [jr EXCEPT ![cur[p].id].sent = Append(@, <<cur[p].index, cur[p].data>>)]
    /\ Settle(p, Ok)
    /\ UNCHANGED <<sessions, dirs, meta, targets, cur, pre, rec, nops, pipes, drvVars, mgrVars>>

\* the Readable emits 'end', having handed its last bytes to the write
\* stream, and receiveChunk resolves; the write stream's 'finish' is not
\* awaited
ReceiveChunkEnd(p) ==
    /\ pc[p] = "rc_pipe"
    /\ jr' = [jr EXCEPT ![cur[p].id].sent = Append(@, <<cur[p].index, cur[p].data>>)]
    /\ Settle(p, Ok)
    /\ UNCHANGED <<sessions, dirs, meta, chunks, targets, cur, pre, rec, nops, pipes, drvVars, mgrVars>>

\* the process ends and a new one starts: memory is lost, the calls in
\* flight and the streams not yet flushed with it; the disk is as it was
Exit ==
    /\ sessions' = <<>>
    /\ pc' = [p \in Procs |-> "idle"]
    /\ cur' = [p \in Procs |-> NoCall]
    /\ res' = [p \in Procs |-> NoRes]
    /\ loc' = [p \in Procs |-> NoLoc]
    /\ pre' = [p \in Procs |-> NoPre]
    /\ pipes' = {}
    /\ jr' = [i \in AllIds |->
                IF jr[i].state = "live" THEN [jr[i] EXCEPT !.state = "restarted"]
                ELSE jr[i]]
    /\ rec' = [at |-> "restarted", sessions |-> sessions]

\* the write stream w opens chunk-<index> with flags 'w' (creates or
\* truncates it); without the directory the open fails, the stream emits
\* 'error', nothing listens for it and the process ends
WriteStreamOpen(w) ==
    /\ w \in pipes
    /\ w.fd = "pending"
    /\ IF getSessionDir(w.id) \in dirs
       THEN /\ chunks' = [chunks EXCEPT ![getSessionDir(w.id)] = Put(@, w.index, <<>>)]
            /\ pipes' = (pipes \ {w}) \cup {[w EXCEPT !.fd = "open"]}
            /\ UNCHANGED <<sessions, pc, cur, res, loc, jr, pre, rec>>
       ELSE /\ Exit
            /\ UNCHANGED chunks
    /\ UNCHANGED <<dirs, meta, targets, nops, drvVars, mgrVars>>

\* the write stream w writes the bytes that were piped to it and closes
WriteStreamWrite(w) ==
    /\ w \in pipes
    /\ w.fd = "open"
    /\ chunks' = IF w.index \in DOMAIN chunks[getSessionDir(w.id)]
                 THEN [chunks EXCEPT ![getSessionDir(w.id)][w.index] = <<w.data>>]
                 ELSE chunks
    /\ pipes' = pipes \ {w}
    /\ UNCHANGED <<sessions, dirs, meta, targets, pc, cur, res, loc, jr, pre, rec, nops,
                   drvVars, mgrVars>>

---------------------------------------------------------------------------
(* getProgress *)

\* a getProgress that throws for an id without a session
GetProgressStrict(p, id) ==
    /\ CanCall(p)
    /\ Begin(p, Call("getProgress", id, 0, "A"))
    /\ Settle(p, IF id \in DOMAIN sessions
                 THEN [Ok EXCEPT !.progress = ProgressOf(sessions, id)]
                 ELSE Failed("UploadSessionNotFoundError"))
    /\ UNCHANGED <<sessions, dirs, meta, chunks, targets, jr, pipes, drvVars, mgrVars>>

\* getProgress is synchronous: 0 without a session, else size / total * 100
GetProgress(p, id) ==
    /\ CanCall(p)
    /\ Begin(p, Call("getProgress", id, 0, "A"))
    /\ Settle(p, [Ok EXCEPT !.progress = ProgressOf(sessions, id)])
    /\ UNCHANGED <<sessions, dirs, meta, chunks, targets, jr, pipes, drvVars, mgrVars>>

---------------------------------------------------------------------------
(* finalizeUpload *)

\* a completeness test that only rejects a session with too many chunks
IncompleteOnExcess(s) ==
    s.totalChunks.k = "num" /\ Len(s.receivedChunks) > s.totalChunks.n

\* the completeness test of a session whose totalChunks is not Infinity:
\* receivedChunks.size !== totalChunks (a number never equals null)
Incomplete(s) ==
    \/ s.totalChunks.k # "num"
    \/ Len(s.receivedChunks) # s.totalChunks.n

\* the received indices in arrival order, the sort forgotten
ReceivedOrderUnsorted(s) == s.receivedChunks

\* the chunk order of a session whose totalChunks is not Infinity
ReceivedOrder(s) == SortAsc(Range(s.receivedChunks))

Reverse(a) == [k \in 1..Len(a) |-> a[Len(a) + 1 - k]]

\* the chunk-* files taken in descending order, the sort turned round
DirectoryOrderDescending(id) == Reverse(SortAsc(DOMAIN chunks[getSessionDir(id)]))

\* the chunk order of an unbounded session: the chunk-* files of the
\* session directory, their indices parsed and sorted
DirectoryOrder(id) == SortAsc(DOMAIN chunks[getSessionDir(id)])

\* finalizeUpload up to its first await
FinalizeUpload(p, id) ==
    /\ CanCall(p)
    /\ Begin(p, Call("finalizeUpload", id, 0, "A"))
    /\ IF id \notin DOMAIN sessions
       THEN Settle(p, Failed("UploadSessionNotFoundError"))
       ELSE IF sessions[id].totalChunks = Infinity
       THEN /\ loc' = [loc EXCEPT ![p] = [NoLoc EXCEPT !.tgt = sessions[id].targetPath]]
            /\ Goto(p, "fu_readdir")
       ELSE IF Incomplete(sessions[id])
       THEN Settle(p, [Failed("IncompleteUploadError") EXCEPT
                          !.expected = sessions[id].totalChunks,
                          !.received = Len(sessions[id].receivedChunks)])
       ELSE /\ loc' = [loc EXCEPT ![p] = [NoLoc EXCEPT
                          !.tgt = sessions[id].targetPath,
                          !.idxs = ReceivedOrder(sessions[id])]]
            /\ Goto(p, "fu_open")
    /\ UNCHANGED <<sessions, dirs, meta, chunks, targets, jr, pipes, drvVars, mgrVars>>

\* completeUpload: finalizeUpload under another name
CompleteUpload(p, uploadId) == FinalizeUpload(p, uploadId)

\* unbounded session: await fs.readdir(chunkDir)
FinalizeReaddir(p) ==
    /\ pc[p] = "fu_readdir"
    /\ IF getSessionDir(cur[p].id) \in dirs
       THEN /\ loc' = [loc EXCEPT ![p].idxs = DirectoryOrder(cur[p].id)]
            /\ pc' = [pc EXCEPT ![p] = "fu_open"]
            /\ UNCHANGED res
       ELSE Settle(p, Failed("IOError"))
    /\ UNCHANGED <<sessions, dirs, meta, chunks, targets, cur, jr, pre, rec, nops, pipes, drvVars, mgrVars>>

\* where finalizeUpload goes when the chunks left to copy are idxs
AfterCopy(idxs) == IF idxs = <<>> THEN "fu_remove" ELSE "fu_copy"

\* a file opened with flags 'a': what it holds is kept
OpenedForAppend(files, path) ==
    IF path \in DOMAIN files THEN files ELSE Put(files, path, <<>>)

\* a file opened with flags 'w', the default of createWriteStream: it is
\* created, or truncated when it exists
Opened(files, path) == Put(files, path, <<>>)

\* createWriteStream(session.targetPath) creates or truncates the target
FinalizeOpen(p) ==
    /\ pc[p] = "fu_open"
    /\ targets' = Opened(targets, loc[p].tgt)
    /\ pc' = [pc EXCEPT ![p] = AfterCopy(loc[p].idxs)]
    /\ UNCHANGED <<sessions, dirs, meta, chunks, cur, res, loc, jr, pre, rec, nops, pipes, drvVars, mgrVars>>

\* one turn of the loop: the chunk file is piped to the end of the target;
\* a chunk file that cannot be opened rejects the call
FinalizeCopy(p) ==
    /\ pc[p] = "fu_copy"
    /\ IF Head(loc[p].idxs) \in DOMAIN chunks[getSessionDir(cur[p].id)]
       THEN /\ targets' = [targets EXCEPT ![loc[p].tgt] =
                              @ \o chunks[getSessionDir(cur[p].id)][Head(loc[p].idxs)]]
            /\ loc' = [loc EXCEPT ![p].idxs = Tail(@)]
            /\ pc' = [pc EXCEPT ![p] = AfterCopy(Tail(loc[p].idxs))]
            /\ UNCHANGED res
       ELSE /\ Settle(p, Failed("IOError"))
            /\ UNCHANGED targets
    /\ UNCHANGED <<sessions, dirs, meta, chunks, cur, jr, pre, rec, nops, pipes, drvVars, mgrVars>>

\* the table entry is kept
RetiredNot(tbl, id) == tbl

\* this.sessions.delete(id)
Retired(tbl, id) == Drop(tbl, id)

\* a removal that deletes the files and leaves the directory
RemoveDirKept(id) ==
    /\ dirs' = dirs
    /\ meta' = Drop(meta, getSessionDir(id))
    /\ chunks' = [chunks EXCEPT ![getSessionDir(id)] = <<>>]

\* fs.remove of a session directory: the directory and every file in it
RemoveDir(id) ==
    /\ dirs' = dirs \ {getSessionDir(id)}
    /\ meta' = Drop(meta, getSessionDir(id))
    /\ chunks' = [chunks EXCEPT ![getSessionDir(id)] = <<>>]

\* the stream is ended and finished, the session directory is removed, the
\* table entry deleted, and the call resolves with the target path
FinalizeRemove(p) ==
    /\ pc[p] = "fu_remove"
    /\ RemoveDir(cur[p].id)
    /\ sessions' = Retired(sessions, cur[p].id)
    /\ jr' = [jr EXCEPT ![cur[p].id].state = "finalized",
                        ![cur[p].id].racing = Starting(cur[p].id)]
    /\ Settle(p, [Ok EXCEPT !.path = loc[p].tgt])
    /\ UNCHANGED <<targets, cur, pre, rec, nops, pipes, drvVars, mgrVars>>

---------------------------------------------------------------------------
(* abortSession *)

\* abortSession up to its await: the table entry is deleted
AbortSession(p, id) ==
    /\ CanCall(p)
    /\ Begin(p, Call("abortSession", id, 0, "A"))
    /\ sessions' = Retired(sessions, id)
    /\ jr' = [jr EXCEPT ![id].state = "aborted", ![id].racing = Starting(id)]
    /\ Goto(p, "ab_remove")
    /\ UNCHANGED <<dirs, meta, chunks, targets, loc, pipes, drvVars, mgrVars>>

\* a removal that fails when there is no directory to remove
AbortRemoveStrict(p) ==
    /\ pc[p] = "ab_remove"
    /\ IF getSessionDir(cur[p].id) \in dirs
       THEN /\ RemoveDir(cur[p].id)
            /\ Settle(p, Ok)
       ELSE /\ Settle(p, Failed("IOError"))
            /\ UNCHANGED <<dirs, meta, chunks>>
    /\ UNCHANGED <<sessions, targets, cur, jr, pre, rec, nops, pipes, drvVars, mgrVars>>

\* await fs.remove(sessionDir), which is no error when nothing is there
AbortRemove(p) ==
    /\ pc[p] = "ab_remove"
    /\ RemoveDir(cur[p].id)
    /\ Settle(p, Ok)
    /\ UNCHANGED <<sessions, targets, cur, jr, pre, rec, nops, pipes, drvVars, mgrVars>>

---------------------------------------------------------------------------
(* loadSessionsFromDisk *)

\* loadSessionsFromDisk up to its first await
LoadSessionsFromDisk(p) ==
    /\ CanCall(p)
    /\ Begin(p, Call("loadSessionsFromDisk", "a", 0, "A"))
    /\ Goto(p, "ld_readdir")
    /\ UNCHANGED <<sessions, dirs, meta, chunks, targets, loc, jr, pipes, drvVars, mgrVars>>

\* the for-of loop goes on with the directories left in todo, or the call
\* resolves
LoadLoop(p, todo) ==
    IF todo = {}
    THEN /\ Settle(p, Ok)
         /\ rec' = IF rec.at = "restarted" THEN [rec EXCEPT !.at = "loaded"] ELSE rec
    ELSE /\ loc' = [loc EXCEPT ![p] = [NoLoc EXCEPT !.todo = todo]]
         /\ pc' = [pc EXCEPT ![p] = "ld_exists"]
         /\ UNCHANGED <<res, rec>>

\* await fs.readdir(this.basePath): the session directories (the other
\* entries of basePath hold no metadata.json and are passed over)
LoadReaddir(p) ==
    /\ pc[p] = "ld_readdir"
    /\ LoadLoop(p, dirs)
    /\ UNCHANGED <<sessions, dirs, meta, chunks, targets, cur, jr, pre, nops, pipes, drvVars, mgrVars>>

\* await fs.pathExists(metadataPath) for the next directory, in the order
\* readdir listed them, which is any order
LoadPathExists(p, d) ==
    /\ pc[p] = "ld_exists"
    /\ d \in loc[p].todo
    /\ IF d \in DOMAIN meta
       THEN /\ loc' = [loc EXCEPT ![p].dir = d]
            /\ pc' = [pc EXCEPT ![p] = "ld_read"]
            /\ UNCHANGED <<res, rec>>
       ELSE LoadLoop(p, loc[p].todo \ {d})
    /\ UNCHANGED <<sessions, dirs, meta, chunks, targets, cur, jr, pre, nops, pipes, drvVars, mgrVars>>

\* a load that keeps the entry the table already has for the id
LoadReadJSONKeep(p) ==
    /\ pc[p] = "ld_read"
    /\ IF loc[p].dir \in DOMAIN meta /\ meta[loc[p].dir] # <<>>
       THEN /\ sessions' = IF meta[loc[p].dir][1].id \in DOMAIN sessions THEN sessions
                           ELSE Put(sessions, meta[loc[p].dir][1].id,
                                    Deserialize(meta[loc[p].dir][1]))
            /\ LoadLoop(p, loc[p].todo \ {loc[p].dir})
       ELSE /\ Settle(p, Failed("IOError"))
            /\ UNCHANGED <<sessions, rec>>
    /\ UNCHANGED <<dirs, meta, chunks, targets, cur, jr, pre, nops, pipes, drvVars, mgrVars>>

\* await fs.readJSON(metadataPath) and sessions.set(metadata.id, ...); a
\* file that is gone or empty rejects the call
LoadReadJSON(p) ==
    /\ pc[p] = "ld_read"
    /\ IF loc[p].dir \in DOMAIN meta /\ meta[loc[p].dir] # <<>>
       THEN /\ sessions' = Put(sessions, meta[loc[p].dir][1].id,
                               Deserialize(meta[loc[p].dir][1]))
            /\ LoadLoop(p, loc[p].todo \ {loc[p].dir})
       ELSE /\ Settle(p, Failed("IOError"))
            /\ UNCHANGED <<sessions, rec>>
    /\ UNCHANGED <<dirs, meta, chunks, targets, cur, jr, pre, nops, pipes, drvVars, mgrVars>>

---------------------------------------------------------------------------
(* a new ChunkManager on the same directory *)

\* the process is restarted between two calls: constructor(uploadDir)
\* starts with an empty table; the disk is as it was
Restart ==
    /\ \A p \in Procs : pc[p] \in {"idle", "done"}
    /\ nops < MaxOps
    /\ nops' = nops + 1
    /\ sessions # <<>>
    /\ Exit
    /\ UNCHANGED <<dirs, meta, chunks, targets, drvVars, mgrVars>>

---------------------------------------------------------------------------
(* I/O errors *)

\* an awaited fs call of receiveChunk rejects (disk full, permission
\* denied), in saveMetadata or in the chunk write: receiveChunk rethrows;
\* what the fs call had not yet done stays undone
WriteFault(p) ==
    /\ cur[p].kind = "receiveChunk"
    /\ pc[p] \in {"sm_ensure", "sm_open", "sm_write", "rc_open", "rc_write"}
    /\ Settle(p, [Failed("IOError") EXCEPT !.injected = TRUE])
    /\ UNCHANGED <<sessions, dirs, meta, chunks, targets, cur, jr, pre, rec, nops, pipes, drvVars, mgrVars>>

\* the read stream of a chunk emits 'error' inside the copy loop, after it
\* has piped none or some of the chunk to the target: the promise rejects
\* and finalizeUpload rethrows, the write stream left as it is
StreamFault(p) ==
    /\ pc[p] = "fu_copy"
    /\ Head(loc[p].idxs) \in DOMAIN chunks[getSessionDir(cur[p].id)]
    /\ \E part \in {<<>>, chunks[getSessionDir(cur[p].id)][Head(loc[p].idxs)]} :
          targets' = [targets EXCEPT ![loc[p].tgt] = @ \o part]
    /\ Settle(p, [Failed("IOError") EXCEPT !.injected = TRUE])
    /\ jr' = [jr EXCEPT ![cur[p].id].finFailed = TRUE]
    /\ UNCHANGED <<sessions, dirs, meta, chunks, cur, pre, rec, nops, pipes, drvVars, mgrVars>>

---------------------------------------------------------------------------
(* the process ends inside finalizeUpload *)

\* the files f without those whose key is in gone
Without(f, gone) == [x \in DOMAIN f \ gone |-> f[x]]

\* the process ends while finalizeUpload is suspended at one of its awaits:
\* memory is lost, the disk is as the call left it.  Inside the last await,
\* fs.remove(sessionDir), the files of the directory are unlinked one by one
\* in an order the code does not fix, so any of them may be gone already
Crash(p) ==
    /\ cur[p].kind = "finalizeUpload"
    /\ pc[p] \in {"fu_readdir", "fu_open", "fu_copy", "fu_remove"}
    /\ \E m \in BOOLEAN, gone \in SUBSET DOMAIN chunks[getSessionDir(cur[p].id)] :
          /\ pc[p] # "fu_remove" => (~m /\ gone = {})
          /\ meta' = IF m THEN Drop(meta, getSessionDir(cur[p].id)) ELSE meta
          /\ chunks' = [chunks EXCEPT ![getSessionDir(cur[p].id)] = Without(@, gone)]
    /\ sessions' = <<>>
    /\ pc' = [q \in Procs |-> "idle"]
    /\ cur' = [q \in Procs |-> NoCall]
    /\ res' = [q \in Procs |-> NoRes]
    /\ loc' = [q \in Procs |-> NoLoc]
    /\ pre' = [q \in Procs |-> NoPre]
    /\ pipes' = {}
    /\ jr' = [i \in AllIds |->
                IF jr[i].state = "live" THEN [jr[i] EXCEPT !.state = "restarted"]
                ELSE jr[i]]
    /\ rec' = [at |-> "crashed",
               sessions |-> [i \in {cur[p].id} |-> sessions[i]]]
    /\ UNCHANGED <<dirs, targets, nops, drvVars, mgrVars>>

---------------------------------------------------------------------------
(* LocalStorageDriver (src/drivers/local/LocalStorageDriver.ts)            *)
(*                                                                         *)
(* One caller that awaits every call.  read, write, delete, exists,        *)
(* getVisibility and setVisibility run from the call to its settling with  *)
(* nothing in between, so each is one action; writeStream is cut at its    *)
(* awaits and at the events of its two streams.  Directories are made on   *)
(* demand and never removed, and ensurePublicSymlink works outside the     *)
(* scopes, so neither is part of the state.                                *)

DriverCanCall == dpc \in {"idle", "done"} /\ dhist.n < MaxDriverOps

DriverCall(op, filePath, visibility, content) ==
    [op |-> op, filePath |-> filePath, visibility |-> visibility, content |-> content]

DriverOk(value) == [status |-> "ok", value |-> value]
DriverFailed(e) == [status |-> e, value |-> <<>>]

\* the history when a call begins: the disk it found and the call before it
Remember == [dhist EXCEPT !.pre = disk, !.prev = dcur, !.prevOk = (dres.status = "ok"),
                          !.n = @ + 1]

\* write: mkdir of the scope directory, then fs.writeFile of the content
\* under the scope asked for; the other scopes are left alone
DriverWrite(filePath, content, visibility) ==
    /\ DriverCanCall
    /\ dcur' = DriverCall("write", filePath, visibility, content)
    /\ disk' = Put(disk, ResolvePath(filePath, visibility), <<content>>)
    /\ dpc' = "done"
    /\ dres' = DriverOk(<<>>)
    /\ dhist' = [Remember EXCEPT !.last = Put(@, filePath, <<content>>),
                                 !.deleted = @ \ {filePath}]
    /\ UNCHANGED <<dloc, cmVars, mgrVars>>

\* read: the content of the file in the first scope that holds it
DriverRead(filePath) ==
    /\ DriverCanCall
    /\ dcur' = DriverCall("read", filePath, "public", "A")
    /\ dpc' = "done"
    /\ dres' = IF Located(disk, filePath) = "none" THEN DriverFailed("FileNotFoundError")
               ELSE DriverOk(disk[ResolvePath(filePath, Located(disk, filePath))])
    /\ dhist' = Remember
    /\ UNCHANGED <<disk, dloc, cmVars, mgrVars>>

\* delete: fs.unlink in the first scope that holds the file, then return
DriverDelete(filePath) ==
    /\ DriverCanCall
    /\ dcur' = DriverCall("delete", filePath, "public", "A")
    /\ disk' = IF Located(disk, filePath) = "none" THEN disk
               ELSE Drop(disk, ResolvePath(filePath, Located(disk, filePath)))
    /\ dpc' = "done"
    /\ dres' = DriverOk(<<>>)
    /\ dhist' = [Remember EXCEPT !.last = Drop(@, filePath),
                                 !.deleted = @ \cup {filePath}]
    /\ UNCHANGED <<dloc, cmVars, mgrVars>>

\* exists: fs.access of the file in the scope asked for
DriverExists(filePath, visibility) ==
    /\ DriverCanCall
    /\ dcur' = DriverCall("exists", filePath, visibility, "A")
    /\ dpc' = "done"
    /\ dres' = DriverOk(IF ResolvePath(filePath, visibility) \in DOMAIN disk
                        THEN <<"true">> ELSE <<"false">>)
    /\ dhist' = Remember
    /\ UNCHANGED <<disk, dloc, cmVars, mgrVars>>

\* getVisibility: the visibility of getMetadata, the first scope that
\* holds the file
DriverGetVisibility(filePath) ==
    /\ DriverCanCall
    /\ dcur' = DriverCall("getVisibility", filePath, "public", "A")
    /\ dpc' = "done"
    /\ dres' = IF Located(disk, filePath) = "none" THEN DriverFailed("FileNotFoundError")
               ELSE DriverOk(<<Located(disk, filePath)>>)
    /\ dhist' = Remember
    /\ UNCHANGED <<disk, dloc, cmVars, mgrVars>>

\* setVisibility: getMetadata, then mkdir and fs.rename into the scope
\* asked for when the file was found in another
DriverSetVisibility(filePath, visibility) ==
    /\ DriverCanCall
    /\ dcur' = DriverCall("setVisibility", filePath, visibility, "A")
    /\ dpc' = "done"
    /\ IF Located(disk, filePath) = "none"
       THEN /\ dres' = DriverFailed("FileNotFoundError")
            /\ UNCHANGED disk
       ELSE /\ dres' = DriverOk(<<>>)
            /\ disk' = SetVisibilityOn(disk, filePath, visibility)
    /\ dhist' = Remember
    /\ UNCHANGED <<dloc, cmVars, mgrVars>>

\* writeStream up to its first await, fs.ensureDir; the source is a
\* Readable that has not ended
DriverWriteStream(filePath, visibility) ==
    /\ DriverCanCall
    /\ dloc.fd # "pending"
    /\ dcur' = DriverCall("writeStream", filePath, visibility, "A")
    /\ dpc' = "ws_ensure1"
    /\ dres' = NoDriverRes
    /\ dloc' = [NoStreams EXCEPT !.source = "readable",
                                 !.temp = TempPath(ResolvePath(filePath, visibility))]
    /\ dhist' = [Remember EXCEPT !.deleted = @ \ {filePath}]
    /\ UNCHANGED <<disk, cmVars, mgrVars>>

\* the first fs.ensureDir resolves; the second is awaited
WriteStreamEnsureDir ==
    /\ dpc = "ws_ensure1"
    /\ dpc' = "ws_ensure2"
    /\ UNCHANGED <<disk, dcur, dres, dloc, dhist, cmVars, mgrVars>>

\* the second fs.ensureDir resolves: createWriteStream(tempPath), whose
\* file is opened later, stream.pipe(writeStream), and the three listeners
WriteStreamPipe ==
    /\ dpc = "ws_ensure2"
    /\ dpc' = "ws_pipe"
    /\ dloc' = [dloc EXCEPT !.fd = "pending"]
    /\ UNCHANGED <<disk, dcur, dres, dhist, cmVars, mgrVars>>

\* the source emits its next block, which the pipe hands to the write
\* stream
SourceData ==
    /\ dpc = "ws_pipe"
    /\ dloc.source = "readable"
    /\ dloc.sent < Len(StreamBlocks)
    /\ dloc' = [dloc EXCEPT !.sent = @ + 1, !.buf = Append(@, StreamBlocks[dloc.sent + 1])]
    /\ UNCHANGED <<disk, dpc, dcur, dres, dhist, cmVars, mgrVars>>

\* the source emits 'end' after its last block and the pipe ends the write
\* stream
SourceEnd ==
    /\ dpc = "ws_pipe"
    /\ dloc.source = "readable"
    /\ dloc.sent = Len(StreamBlocks)
    /\ dloc' = [dloc EXCEPT !.source = "ended"]
    /\ UNCHANGED <<disk, dpc, dcur, dres, dhist, cmVars, mgrVars>>

\* the process ends on an uncaught exception: the call in flight never
\* settles and the streams are gone; the disk is as it was
DriverExit ==
    /\ dpc' = "idle"
    /\ dres' = NoDriverRes
    /\ dloc' = NoStreams
    /\ dhist' = [dhist EXCEPT !.uncaught = TRUE]
    /\ UNCHANGED <<disk, dcur>>

\* the source emits 'error' (it failed, or was destroyed with an error):
\* with the listener of writeStream attached the write stream is destroyed
\* and fs.remove(tempPath) awaited; before that, while writeStream awaits
\* fs.ensureDir, nothing listens and the 'error' event is thrown
SourceError ==
    /\ dpc \in {"ws_ensure1", "ws_ensure2", "ws_pipe"}
    /\ dloc.source = "readable"
    /\ IF dpc = "ws_pipe"
       THEN /\ dloc' = [dloc EXCEPT !.source = "errored", !.destroyed = TRUE, !.buf = <<>>]
            /\ dpc' = "ws_remove"
            /\ UNCHANGED <<disk, dcur, dres, dhist>>
       ELSE DriverExit
    /\ UNCHANGED <<cmVars, mgrVars>>

\* the write stream opens the temporary file with flags 'w' (creates or
\* truncates it); a stream destroyed before its open completed closes the
\* file as soon as it is open
TempOpen ==
    /\ dloc.fd = "pending"
    /\ disk' = Put(disk, dloc.temp, <<>>)
    /\ dloc' = [dloc EXCEPT !.fd = IF dloc.destroyed THEN "closed" ELSE "open"]
    /\ UNCHANGED <<dpc, dcur, dres, dhist, cmVars, mgrVars>>

\* the write stream writes the next block piped to it
TempWrite ==
    /\ dloc.fd = "open"
    /\ dloc.buf # <<>>
    /\ disk' = IF dloc.temp \in DOMAIN disk
               THEN [disk EXCEPT ![dloc.temp] = Append(@, Head(dloc.buf))] ELSE disk
    /\ dloc' = [dloc EXCEPT !.buf = Tail(@)]
    /\ UNCHANGED <<dpc, dcur, dres, dhist, cmVars, mgrVars>>

\* the write stream, ended and flushed, emits 'finish': fs.move is awaited
TempFinish ==
    /\ dpc = "ws_pipe"
    /\ dloc.fd = "open"
    /\ dloc.source = "ended"
    /\ dloc.buf = <<>>
    /\ dloc' = [dloc EXCEPT !.fd = "closed"]
    /\ dpc' = "ws_move"
    /\ UNCHANGED <<disk, dcur, dres, dhist, cmVars, mgrVars>>

\* fs.move(tempPath, fullPath, { overwrite: true }), then setVisibility is
\* awaited; a rejection inside the 'finish' listener is caught by nothing
WriteStreamMove ==
    /\ dpc = "ws_move"
    /\ IF dloc.temp \in DOMAIN disk
       THEN /\ disk' = Rename(disk, dloc.temp, ResolvePath(dcur.filePath, dcur.visibility))
            /\ dpc' = "ws_setvis"
            /\ UNCHANGED <<dcur, dres, dloc, dhist>>
       ELSE DriverExit
    /\ UNCHANGED <<cmVars, mgrVars>>

\* this.setVisibility(filePath, visibility), then writeStream resolves
WriteStreamSetVisibility ==
    /\ dpc = "ws_setvis"
    /\ disk' = SetVisibilityOn(disk, dcur.filePath, dcur.visibility)
    /\ dpc' = "done"
    /\ dres' = DriverOk(<<>>)
    /\ dhist' = [dhist EXCEPT !.last = Put(@, dcur.filePath, StreamBlocks)]
    /\ UNCHANGED <<dcur, dloc, cmVars, mgrVars>>

\* the 'error' listener goes on: fs.remove(tempPath), which is no error
\* when the file is not there, then writeStream rejects with the error
WriteStreamRemove ==
    /\ dpc = "ws_remove"
    /\ disk' = IF dloc.temp \in DOMAIN disk THEN Drop(disk, dloc.temp) ELSE disk
    /\ dpc' = "done"
    /\ dres' = DriverFailed("StreamError")
    /\ UNCHANGED <<dcur, dloc, dhist, cmVars, mgrVars>>

---------------------------------------------------------------------------
(* StorageManager (src/core/StorageManager.ts)                             *)

\* register(disk, driver): this.drivers[disk] = driver
Register(diskName, driver) ==
    /\ mcur' = [op |-> "register", name |-> diskName]
    /\ drivers' = Put(drivers, diskName, driver)
    /\ mres' = [status |-> "ok", value |-> Undefined, before |-> defaultDisk]
    /\ UNCHANGED <<defaultDisk, cmVars, drvVars>>

\* disk(diskName?): the driver under diskName ?? this.defaultDisk, and
\* SettingDiskError when that is falsy
Disk(diskName) ==
    /\ mcur' = [op |-> "disk", name |-> diskName]
    /\ LET resolvedDisk == IF diskName = Undefined THEN defaultDisk ELSE diskName
       IN  mres' = IF DriverAt(drivers, resolvedDisk) = Undefined
                   THEN [status |-> "SettingDiskError", value |-> Undefined,
                         before |-> defaultDisk]
                   ELSE [status |-> "ok", value |-> DriverAt(drivers, resolvedDisk),
                         before |-> defaultDisk]
    /\ UNCHANGED <<drivers, defaultDisk, cmVars, drvVars>>

\* setDefault(disk): SettingDiskError when this.drivers[disk] is falsy,
\* else this.defaultDisk = disk
SetDefault(diskName) ==
    /\ mcur' = [op |-> "setDefault", name |-> diskName]
    /\ IF DriverAt(drivers, diskName) = Undefined
       THEN /\ mres' = [status |-> "SettingDiskError", value |-> Undefined,
                        before |-> defaultDisk]
            /\ UNCHANGED defaultDisk
       ELSE /\ mres' = [status |-> "ok", value |-> Undefined, before |-> defaultDisk]
            /\ defaultDisk' = diskName
    /\ UNCHANGED <<drivers, cmVars, drvVars>>

---------------------------------------------------------------------------
(* Specifications *)

\* the steps of startSession, receiveChunk and finalizeUpload in flight
FlightStep(p) ==
    \/ SaveMetadataEnsureDir(p)
    \/ SaveMetadataOpen(p)
    \/ SaveMetadataWrite(p)
    \/ StartSessionEnsureDir(p)
    \/ ReceiveChunkOpen(p)
    \/ ReceiveChunkWrite(p)
    \/ FinalizeReaddir(p)
    \/ FinalizeOpen(p)
    \/ FinalizeCopy(p)
    \/ FinalizeRemove(p)

\* the steps of every call in flight
Step(p) ==
    \/ FlightStep(p)
    \/ AbortRemove(p)
    \/ LoadReaddir(p)
    \/ \E d \in Ids : LoadPathExists(p, d)
    \/ LoadReadJSON(p)

\* a caller makes a call of the session API on one of the sessions of I
SessionCall(p, I) ==
    \/ \E id \in I, t \in Totals, n \in Names, v \in Visibilities :
          StartSession(p, id, t, n, "out", v)
    \/ \E id \in I, i \in Indices, d \in Payloads : ReceiveChunk(p, id, i, d)
    \/ \E id \in I : FinalizeUpload(p, id)

\* a caller makes a call of the simple API
SimpleCall(p, I) ==
    \/ \E id \in I, t \in Totals, n \in Names, v \in Visibilities :
          StartUpload(p, id, t, n, v)
    \/ \E id \in I, i \in Indices, d \in Payloads : AppendChunk(p, id, i, d)
    \/ \E id \in I : CompleteUpload(p, id)

\* a caller makes one of the other calls
OtherCall(p, I) ==
    \/ \E id \in I : AbortSession(p, id) \/ GetProgress(p, id)
    \/ LoadSessionsFromDisk(p)

\* one caller that awaits every call before it makes the next
Next ==
    \/ \E p \in SeqProcs :
          SessionCall(p, SeqIds) \/ SimpleCall(p, SeqIds) \/ OtherCall(p, SeqIds) \/ Step(p)
    \/ Restart

Spec == Init /\ [][Next]_vars

\* the same caller using the session API, with fs writes that may fail
NextWriteFault ==
    \E p \in SeqProcs : SessionCall(p, SeqIds) \/ FlightStep(p) \/ WriteFault(p)

SpecWriteFault == Init /\ [][NextWriteFault]_vars

\* the same caller using the session API, with chunk reads that may fail
NextStreamFault ==
    \E p \in SeqProcs : SessionCall(p, SeqIds) \/ FlightStep(p) \/ StreamFault(p)

SpecStreamFault == Init /\ [][NextStreamFault]_vars

\* two callers of the session API whose calls overlap
NextConc ==
    \E p \in Procs :
        \/ nops < MaxConcOps /\ SessionCall(p, SeqIds)
        \/ FlightStep(p)

SpecConc == Init /\ [][NextConc]_vars

\* one caller that uses the simple API only
NextSimpleApi ==
    \E p \in SeqProcs : SimpleCall(p, SeqIds) \/ FlightStep(p)

SpecSimpleApi == Init /\ [][NextSimpleApi]_vars

\* a caller submits a chunk as a Readable
ReadableCall(p, I) ==
    \E id \in I, i \in Indices, d \in Readables : ReceiveChunk(p, id, i, d)

\* the steps of the chunk pipes: the source ends, the write streams flush
PipeStep(p) ==
    \/ ReceiveChunkEnd(p)
    \/ \E w \in pipes : w.by = p /\ WriteStreamOpen(w)
    \/ \E w \in pipes : w.by = p /\ WriteStreamWrite(w)

\* one caller of the session API whose chunks are Buffers or Readables
NextReadable ==
    \E p \in SeqProcs :
        SessionCall(p, SeqIds) \/ ReadableCall(p, SeqIds) \/ FlightStep(p) \/ PipeStep(p)

SpecReadable == Init /\ [][NextReadable]_vars

\* one caller of the session API whose process may end inside
\* finalizeUpload, and who reloads the sessions afterwards
NextCrash ==
    \E p \in SeqProcs :
        \/ SessionCall(p, SeqIds)
        \/ FlightStep(p)
        \/ Crash(p)
        \/ LoadSessionsFromDisk(p)
        \/ LoadReaddir(p)
        \/ \E d \in Ids : LoadPathExists(p, d)
        \/ LoadReadJSON(p)

SpecCrash == Init /\ [][NextCrash]_vars

\* a caller works on the session of one of the ids of I, which has a target
\* path of its own
OwnSessionCall(p, I) ==
    \/ \E id \in I, t \in Totals, n \in Names, v \in Visibilities :
          StartSession(p, id, t, n, IsoTarget(id), v)
    \/ \E id \in I, i \in Indices, d \in Payloads : ReceiveChunk(p, id, i, d)
    \/ \E id \in I : FinalizeUpload(p, id)
    \/ \E id \in I : AbortSession(p, id)

\* two callers whose calls overlap, each session with its own id and target
NextIso ==
    \E p \in Procs :
        \/ nops < MaxConcOps /\ OwnSessionCall(p, IsoIds)
        \/ FlightStep(p)
        \/ AbortRemove(p)

SpecIso == Init /\ [][NextIso]_vars

\* one caller of the LocalStorageDriver, and the streams of writeStream
NextDriver ==
    \/ \E f \in Files, c \in Contents, v \in ScopeSet : DriverWrite(f, c, v)
    \/ \E f \in Files : DriverRead(f) \/ DriverDelete(f) \/ DriverGetVisibility(f)
    \/ \E f \in Files, v \in ScopeSet :
          DriverExists(f, v) \/ DriverSetVisibility(f, v) \/ DriverWriteStream(f, v)
    \/ WriteStreamEnsureDir \/ WriteStreamPipe
    \/ SourceData \/ SourceEnd \/ SourceError
    \/ TempOpen \/ TempWrite \/ TempFinish
    \/ WriteStreamMove \/ WriteStreamSetVisibility \/ WriteStreamRemove

SpecDriver == Init /\ [][NextDriver]_vars

\* the callers of the StorageManager singleton
NextManager ==
    \/ \E n \in DiskNames, d \in Drivers : Register(n, d)
    \/ \E n \in DiskNames \cup {Undefined} : Disk(n)
    \/ \E n \in DiskNames : SetDefault(n)

SpecManager == Init /\ [][NextManager]_vars

---------------------------------------------------------------------------
(* Vocabulary of the properties *)

\* slot p holds a settled call of the given method
Done(p, kind) == pc[p] = "done" /\ cur[p].kind = kind

Max(S) == CHOOSE x \in S : \A y \in S : y <= x

\* the indices of the chunks accepted since startSession
SentIndices(j) == {j.sent[k][1] : k \in 1..Len(j.sent)}

\* every index 0..N-1 of a bounded session was accepted
Covers(j) == j.total.k = "num" /\ SentIndices(j) = 0..(j.total.n - 1)

\* every index 0..N-1 of a bounded session was accepted exactly once
CoversOnce(j) == Covers(j) /\ Len(j.sent) = j.total.n

\* the payload last accepted for index i
LastSent(j, i) == j.sent[Max({k \in 1..Len(j.sent) : j.sent[k][1] = i})][2]

\* payload(0) ++ payload(1) ++ ... ++ payload(N-1)
InOrder(j) == [i \in 1..j.total.n |-> LastSent(j, i - 1)]

\* the session the call of slot p found in the table when it began
Found(p) == pre[p].sessions[cur[p].id]
HadSession(p) == cur[p].id \in DOMAIN pre[p].sessions
HadBounded(p) == HadSession(p) /\ Found(p).totalChunks.k = "num"

\* memory and disk of the scratch directory are as they were when the call
\* of slot p began
Untouched(p) ==
    /\ sessions = pre[p].sessions
    /\ meta = pre[p].meta
    /\ chunks = pre[p].chunks

\* nothing at all, in memory or on disk, has changed since the call of slot
\* p began
Unchanged(p) ==
    /\ Untouched(p)
    /\ dirs = pre[p].dirs
    /\ targets = pre[p].targets

\* the index of the call of slot p is out of the range of its session
OutOfRange(p) ==
    \/ cur[p].index < 0
    \/ HadBounded(p) /\ cur[p].index >= Found(p).totalChunks.n

---------------------------------------------------------------------------
(* C1: order independence.  When each index 0..N-1 of a bounded session  *)
(* was received exactly once, in whatever order, finalizeUpload resolves *)
(* and the target file is payload(0) ++ ... ++ payload(N-1).             *)
C1_OrderIndependence ==
    \A p \in Procs :
        ( /\ Done(p, "finalizeUpload")
          /\ CoversOnce(jr[cur[p].id])
          /\ jr[cur[p].id].state = "live" \/ res[p].status = "ok" )
        => /\ res[p].status = "ok"
           /\ res[p].path \in DOMAIN targets
           /\ targets[res[p].path] = InOrder(jr[cur[p].id])

\* two chunks with different payloads arrived as 1, 0 and were assembled
C1_Witness ==
    \E p \in Procs :
        /\ Done(p, "finalizeUpload")
        /\ res[p].status = "ok"
        /\ jr[cur[p].id].total = Bounded(2)
        /\ Len(jr[cur[p].id].sent) = 2
        /\ jr[cur[p].id].sent[1][1] = 1
        /\ jr[cur[p].id].sent[2][1] = 0
        /\ jr[cur[p].id].sent[1][2] # jr[cur[p].id].sent[2][2]

(* C2: completeness gate.  finalizeUpload on a bounded session with      *)
(* fewer received chunks than totalChunks rejects with                   *)
(* IncompleteUploadError(expected = totalChunks, received = size) and    *)
(* leaves the session, its metadata and its chunk files as they were.    *)
C2_CompletenessGate ==
    \A p \in Procs :
        ( /\ Done(p, "finalizeUpload")
          /\ HadBounded(p)
          /\ Len(Found(p).receivedChunks) < Found(p).totalChunks.n )
        => /\ res[p].status = "IncompleteUploadError"
           /\ res[p].expected = Found(p).totalChunks
           /\ res[p].received = Len(Found(p).receivedChunks)
           /\ Untouched(p)
           /\ cur[p].id \in DOMAIN sessions
           /\ cur[p].id \in DOMAIN meta

\* one chunk of two was received when finalizeUpload was called
C2_Witness ==
    \E p \in Procs :
        /\ Done(p, "finalizeUpload")
        /\ res[p].status = "IncompleteUploadError"
        /\ res[p].expected = Bounded(2)
        /\ res[p].received = 1
        /\ DOMAIN chunks[cur[p].id] # {}

(* C3: finalize is terminal.  Once finalizeUpload(id) has resolved, the  *)
(* session directory with its chunk files and metadata.json is gone, the *)
(* table has no entry for id, and until a new startSession(id) every     *)
(* finalizeUpload(id) and receiveChunk(id, ...) rejects with             *)
(* UploadSessionNotFoundError.                                           *)
C3_FinalizeTerminal ==
    /\ \A id \in Ids :
          jr[id].state = "finalized"
          => /\ id \notin DOMAIN sessions
             /\ id \notin dirs
             /\ id \notin DOMAIN meta
             /\ chunks[id] = <<>>
    /\ \A p \in Procs :
          ( /\ Done(p, "finalizeUpload") \/ Done(p, "receiveChunk")
            /\ jr[cur[p].id].state = "finalized"
            /\ ~(cur[p].kind = "finalizeUpload" /\ HadSession(p)) )
          => res[p].status = "UploadSessionNotFoundError"

\* a chunk was submitted to a session that had been finalized
C3_Witness ==
    \E p \in Procs :
        /\ Done(p, "receiveChunk")
        /\ jr[cur[p].id].state = "finalized"
        /\ res[p].status = "UploadSessionNotFoundError"

\* the calls of slots p and q overlapped in time
Overlapped(p, q) == q \in pre[p].inflight \/ p \in pre[q].inflight

(* C4: no lost update.  When two receiveChunk calls for one session with *)
(* distinct indices overlap, then once both have resolved both indices   *)
(* are in the received set in memory and in the receivedChunks list of   *)
(* the persisted metadata.json.                                          *)
C4_NoLostUpdate ==
    \A p, q \in Procs :
        ( /\ p # q
          /\ Done(p, "receiveChunk") /\ res[p].status = "ok"
          /\ Done(q, "receiveChunk") /\ res[q].status = "ok"
          /\ cur[p].id = cur[q].id
          /\ cur[p].index # cur[q].index
          /\ ~OutOfRange(p) /\ ~OutOfRange(q)
          /\ Overlapped(p, q)
          /\ jr[cur[p].id].state = "live"
          /\ {cur[p].index, cur[q].index} \subseteq SentIndices(jr[cur[p].id]) )
        => /\ cur[p].id \in DOMAIN sessions
           /\ {cur[p].index, cur[q].index} \subseteq Range(sessions[cur[p].id].receivedChunks)
           /\ cur[p].id \in DOMAIN meta
           /\ meta[cur[p].id] # <<>>
           /\ {cur[p].index, cur[q].index}
                 \subseteq Range(meta[cur[p].id][1].receivedChunks)

(* C5: crash recovery fidelity.  After completed receiveChunk calls, a    *)
(* fresh ChunkManager on the same directory that has run                 *)
(* loadSessionsFromDisk reports for every bounded session the            *)
(* getProgress the old manager reported before the restart.              *)
C5_CrashRecoveryFidelity ==
    rec.at = "loaded"
    => \A id \in DOMAIN rec.sessions :
          rec.sessions[id].totalChunks.k = "num"
          => /\ ProgressOf(sessions, id) = ProgressOf(rec.sessions, id)
             /\ \A p \in Procs :
                   Done(p, "getProgress") /\ cur[p].id = id
                   => res[p].progress = ProgressOf(rec.sessions, id)

\* a bounded session with progress above 0 was reloaded after a restart
C5_Witness ==
    /\ rec.at = "loaded"
    /\ \E id \in DOMAIN rec.sessions :
          /\ rec.sessions[id].totalChunks = Bounded(2)
          /\ Len(rec.sessions[id].receivedChunks) = 1
          /\ ProgressOf(sessions, id) = [k |-> "num", n |-> 50, d |-> 1]

(* C6: index validation.  receiveChunk rejects an index below 0 and, for *)
(* a bounded session, an index >= totalChunks with a validation error,   *)
(* and the rejected call writes no chunk file and leaves the received    *)
(* set and the persisted metadata as they were.                          *)
C6_IndexValidation ==
    \A p \in Procs :
        (Done(p, "receiveChunk") /\ HadSession(p) /\ OutOfRange(p))
        => /\ res[p].status = "ValidationError"
           /\ Untouched(p)

(* C7: in every reachable state every bounded session has at most        *)
(* totalChunks received chunks.                                          *)
C7_ReceivedWithinTotal ==
    \A id \in DOMAIN sessions :
        sessions[id].totalChunks.k = "num"
        => Len(sessions[id].receivedChunks) <= sessions[id].totalChunks.n

(* C8: no partial credit.  When receiveChunk rejects because the         *)
(* metadata persist or the chunk write failed, the received set in       *)
(* memory and the persisted metadata are what they were before the call. *)
C8_NoPartialCredit ==
    \A p \in Procs :
        (Done(p, "receiveChunk") /\ res[p].status = "IOError" /\ ~OutOfRange(p))
        => /\ sessions = pre[p].sessions
           /\ meta = pre[p].meta

(* C9: finalize is retry-safe.  When finalizeUpload rejects with an I/O  *)
(* error inside the copy loop, the session, its metadata and its chunk   *)
(* files are as they were, and a later finalizeUpload without the fault  *)
(* resolves with the complete in-order output.                           *)
C9_FinalizeRetrySafe ==
    \A p \in Procs :
        Done(p, "finalizeUpload")
        => /\ (res[p].status = "IOError" /\ res[p].injected)
              => /\ Untouched(p)
                 /\ cur[p].id \in DOMAIN sessions
                 /\ cur[p].id \in dirs
           /\ ( /\ jr[cur[p].id].finFailed
                /\ Covers(jr[cur[p].id])
                /\ ~res[p].injected
                /\ jr[cur[p].id].state = "live" \/ res[p].status = "ok" )
              => /\ res[p].status = "ok"
                 /\ res[p].path \in DOMAIN targets
                 /\ targets[res[p].path] = InOrder(jr[cur[p].id])

\* finalizeUpload resolved on a session whose earlier finalizeUpload had
\* failed inside the copy loop
C9_Witness ==
    \E p \in Procs :
        /\ Done(p, "finalizeUpload")
        /\ res[p].status = "ok"
        /\ jr[cur[p].id].finFailed
        /\ Covers(jr[cur[p].id])
        /\ targets[res[p].path] = InOrder(jr[cur[p].id])

(* C10: idempotent chunk overwrite.  Submitting an index again leaves    *)
(* the received count as it was, and the finalized output holds at each  *)
(* position the payload submitted last for that index, once.             *)
C10_IdempotentOverwrite ==
    \A p \in Procs :
        /\ ( /\ Done(p, "receiveChunk")
             /\ res[p].status = "ok"
             /\ HadSession(p)
             /\ cur[p].index \in Range(Found(p).receivedChunks) )
           => /\ cur[p].id \in DOMAIN sessions
              /\ Len(sessions[cur[p].id].receivedChunks) = Len(Found(p).receivedChunks)
              /\ chunks[cur[p].id][cur[p].index] = <<cur[p].data>>
        /\ ( /\ Done(p, "finalizeUpload")
             /\ Covers(jr[cur[p].id])
             /\ Len(jr[cur[p].id].sent) > jr[cur[p].id].total.n
             /\ jr[cur[p].id].state = "live" \/ res[p].status = "ok" )
           => /\ res[p].status = "ok"
              /\ res[p].path \in DOMAIN targets
              /\ targets[res[p].path] = InOrder(jr[cur[p].id])

\* index 0 was submitted with A and then with B, and the output is B
C10_Witness ==
    \E p \in Procs :
        /\ Done(p, "finalizeUpload")
        /\ res[p].status = "ok"
        /\ jr[cur[p].id].sent = << <<0, "A">>, <<0, "B">> >>
        /\ targets[res[p].path] = <<"B">>

\* abortSession(id) has returned and no startSession(id) was made since
Aborted(id) ==
    /\ jr[id].state = "aborted"
    /\ \A q \in Procs : ~(pc[q] = "ab_remove" /\ cur[q].id = id)

(* C11: abort cleanup.  After abortSession(id) has returned the session  *)
(* directory of id is not on disk, getProgress(id) returns 0, and        *)
(* receiveChunk(id, ...) and finalizeUpload(id) reject with              *)
(* UploadSessionNotFoundError.                                           *)
C11_AbortCleanup ==
    /\ \A id \in Ids :
          Aborted(id)
          => /\ id \notin dirs
             /\ id \notin DOMAIN meta
             /\ chunks[id] = <<>>
             /\ ProgressOf(sessions, id) = Zero
    /\ \A p \in Procs :
          Aborted(cur[p].id)
          => /\ Done(p, "getProgress") => res[p].progress = Zero
             /\ (Done(p, "receiveChunk") \/ Done(p, "finalizeUpload"))
                => res[p].status = "UploadSessionNotFoundError"

\* a session that held a chunk was aborted, and the chunk submitted next
\* found no session
C11_Witness ==
    \E p \in Procs :
        /\ Done(p, "receiveChunk")
        /\ Aborted(cur[p].id)
        /\ jr[cur[p].id].sent # <<>>
        /\ res[p].status = "UploadSessionNotFoundError"
        /\ cur[p].id \notin dirs

(* C12: removal is idempotent.  abortSession on an id that has no        *)
(* session, because none was created or because it was aborted or        *)
(* finalized, resolves and changes neither the session table nor         *)
(* anything on disk; a second abortSession(id) changes nothing more.     *)
C12_RemovalIdempotent ==
    \A p \in Procs :
        ( /\ Done(p, "abortSession")
          /\ pre[p].life \in {"none", "aborted", "finalized"} )
        => /\ res[p].status = "ok"
           /\ Unchanged(p)
           /\ cur[p].id \notin DOMAIN sessions
           /\ cur[p].id \notin dirs

\* a session that held a chunk was aborted twice in a row
C12_Witness ==
    \E p \in Procs :
        /\ Done(p, "abortSession")
        /\ pre[p].life = "aborted"
        /\ jr[cur[p].id].sent # <<>>
        /\ res[p].status = "ok"

(* C13: receiveChunk(id, ...) and finalizeUpload(id) on an id that has   *)
(* no session in memory reject with UploadSessionNotFoundError, and      *)
(* nothing in memory or on disk is created, modified or deleted.         *)
C13_NotFoundNoEffect ==
    \A p \in Procs :
        ( /\ Done(p, "receiveChunk") \/ Done(p, "finalizeUpload")
          /\ ~HadSession(p) )
        => /\ res[p].status = "UploadSessionNotFoundError"
           /\ Unchanged(p)

\* a chunk was submitted to a manager that never loaded the session whose
\* directory is on disk
C13_Witness ==
    \E p \in Procs :
        /\ Done(p, "receiveChunk")
        /\ ~HadSession(p)
        /\ cur[p].id \in dirs
        /\ cur[p].id \in DOMAIN meta
        /\ res[p].status = "UploadSessionNotFoundError"

(* C14: startSession with an id that already has a session rejects with *)
(* DuplicateSessionError and the session the table held stays as it was. *)
C14_DuplicateRejected ==
    \A p \in Procs :
        (Done(p, "startSession") /\ HadSession(p))
        => /\ res[p].status = "DuplicateSessionError"
           /\ cur[p].id \in DOMAIN sessions
           /\ sessions[cur[p].id] = Found(p)

RECURSIVE Assembled(_, _)
\* the files of the given indices, one after the other
Assembled(files, idxs) ==
    IF idxs = <<>> THEN <<>>
    ELSE files[Head(idxs)] \o Assembled(files, Tail(idxs))

\* the payloads accepted since startSession in ascending index order, the
\* payload accepted last for each index
Ascending(j) ==
    [k \in 1..Cardinality(SentIndices(j)) |-> LastSent(j, SortAsc(SentIndices(j))[k])]

\* the call of slot p found an unbounded session
HadUnbounded(p) == HadSession(p) /\ Found(p).totalChunks = Infinity

(* C15: unbounded mode.  A session of totalChunks = Infinity accepts     *)
(* chunks in any arrival order, and finalizeUpload resolves with the     *)
(* chunk files of the session directory concatenated in ascending index  *)
(* order; when the directory holds the chunks received since             *)
(* startSession, that is the output of a bounded session that received   *)
(* them.                                                                 *)
C15_UnboundedMode ==
    \A p \in Procs :
        /\ (Done(p, "receiveChunk") /\ HadUnbounded(p) /\ cur[p].index >= 0)
           => /\ res[p].status = "ok"
              /\ chunks[cur[p].id][cur[p].index] = <<cur[p].data>>
        /\ (Done(p, "finalizeUpload") /\ HadUnbounded(p))
           => /\ res[p].status = "ok"
              /\ res[p].path \in DOMAIN targets
              /\ targets[res[p].path] =
                    Assembled(pre[p].chunks[cur[p].id],
                              SortAsc(DOMAIN pre[p].chunks[cur[p].id]))
              /\ DOMAIN pre[p].chunks[cur[p].id] = SentIndices(jr[cur[p].id])
                 => targets[res[p].path] = Ascending(jr[cur[p].id])

\* an unbounded session received chunk 1 and then chunk 0, of different
\* payloads, and they were assembled as 0, 1
C15_Witness ==
    \E p \in Procs :
        /\ Done(p, "finalizeUpload")
        /\ HadUnbounded(p)
        /\ res[p].status = "ok"
        /\ jr[cur[p].id].sent = << <<1, "A">>, <<0, "B">> >>
        /\ targets[res[p].path] = <<"B", "A">>

(* C16: no transition out of a terminal state.  Once abortSession(id) or *)
(* a finalizeUpload(id) that resolved has returned, and until a new      *)
(* startSession(id), the session directory and its metadata.json do not  *)
(* come back on disk and the table has no entry for id, also when a      *)
(* receiveChunk(id) was in flight when the abort or finalize ran.        *)
C16_NoReturnFromTerminal ==
    \A id \in Ids :
        ( /\ jr[id].state = "finalized" \/ Aborted(id)
          /\ ~jr[id].racing )
        => /\ id \notin dirs
           /\ id \notin DOMAIN meta
           /\ id \notin DOMAIN sessions

\* the session s has exactly the fields of the metadata record m
SameFields(s, m) ==
    /\ s.id = m.id
    /\ s.originalName = m.originalName
    /\ s.totalChunks = m.totalChunks
    /\ Range(s.receivedChunks) = Range(m.receivedChunks)
    /\ Len(s.receivedChunks) = Cardinality(Range(m.receivedChunks))
    /\ s.targetPath = m.targetPath
    /\ s.visibility = m.visibility

(* C17: loadSessionsFromDisk, called between any two calls, resolves and *)
(* leaves the disk alone; afterwards every session that has a metadata   *)
(* record is in the table with exactly the persisted fields, whatever    *)
(* the table held for its id, the other entries are as they were, and a  *)
(* second loadSessionsFromDisk right after the first changes nothing.    *)
C17_LoadIdempotent ==
    \A p \in Procs :
        Done(p, "loadSessionsFromDisk")
        => /\ res[p].status = "ok"
           /\ meta = pre[p].meta /\ chunks = pre[p].chunks
           /\ dirs = pre[p].dirs /\ targets = pre[p].targets
           /\ DOMAIN sessions = DOMAIN pre[p].sessions \cup DOMAIN meta
           /\ \A id \in DOMAIN sessions :
                 IF id \in DOMAIN meta
                 THEN meta[id] # <<>> /\ SameFields(sessions[id], meta[id][1])
                 ELSE sessions[id] = pre[p].sessions[id]
           /\ pre[p].prev = "loadSessionsFromDisk" => sessions = pre[p].sessions

\* an unbounded session was replaced by its persisted record, whose
\* totalChunks is null, and loaded a second time
C17_Witness ==
    \E p \in Procs :
        /\ Done(p, "loadSessionsFromDisk")
        /\ pre[p].prev = "loadSessionsFromDisk"
        /\ jr["a"].total = Infinity
        /\ "a" \in DOMAIN sessions
        /\ sessions["a"].totalChunks = JsonNull

C19_ProgressValue ==
    \A p \in Procs :
        (Done(p, "getProgress") /\ HadBounded(p))
        => /\ res[p].status = "ok"
           /\ res[p].progress.k = "num"
           /\ res[p].progress.d > 0
           /\ res[p].progress.n * Found(p).totalChunks.n
                 = Cardinality(SentIndices(jr[cur[p].id])) * 100 * res[p].progress.d

\* index 0 of a session of two chunks was submitted twice, and the
\* progress is 50
C19_Witness ==
    \E p \in Procs :
        /\ Done(p, "getProgress")
        /\ HadBounded(p)
        /\ Found(p).totalChunks = Bounded(2)
        /\ Len(jr[cur[p].id].sent) = 2
        /\ SentIndices(jr[cur[p].id]) = {0}
        /\ res[p].progress = [k |-> "num", n |-> 50, d |-> 1]

(* C20: getProgress is a read-only probe.  It returns a number and never *)
(* throws, 0 for an id that has no session, and it changes neither the   *)
(* session table nor any file on disk.                                   *)
C20_ProgressReadOnly ==
    \A p \in Procs :
        Done(p, "getProgress")
        => /\ res[p].status = "ok"
           /\ Unchanged(p)
           /\ ~HadSession(p) => res[p].progress = [k |-> "num", n |-> 0, d |-> 1]

\* getProgress was asked for a session that is on disk and not in memory
C20_Witness ==
    \E p \in Procs :
        /\ Done(p, "getProgress")
        /\ ~HadSession(p)
        /\ cur[p].id \in DOMAIN meta
        /\ res[p].status = "ok"
        /\ res[p].progress = [k |-> "num", n |-> 0, d |-> 1]

(* C21: getProgress on an unbounded session reports a dedicated sentinel *)
(* or fails explicitly; it never returns a number obtained by dividing   *)
(* the received count by the unbounded marker.                           *)
C21_UnboundedProgress ==
    \A p \in Procs :
        (Done(p, "getProgress") /\ HadUnbounded(p))
        => \/ res[p].status # "ok"
           \/ res[p].progress.k \notin {"num", "inf", "nan"}

\* the driver's last call was op and it has settled
DriverDone(op) == dpc = "done" /\ dcur.op = op

(* C22: read-after-write.  After write(f, c, v) has resolved, for any     *)
(* visibility v, read(f) returns c: the content of the most recent        *)
(* successful write to f, also when f was written before under another    *)
(* scope.                                                                 *)
C22_ReadAfterWrite ==
    (DriverDone("read") /\ dcur.filePath \in DOMAIN dhist.last)
    => /\ dres.status = "ok"
       /\ dres.value = dhist.last[dcur.filePath]

(* C23: delete(f) deletes f from all visibility scopes.  After it has    *)
(* returned, and until f is written again, f is in none of the scopes    *)
(* public, private, test, exists(f, v) is false for each of them and     *)
(* read(f) fails with FileNotFoundError.                                 *)
C23_DeleteAllScopes ==
    \A f \in dhist.deleted :
        /\ \A v \in ScopeSet : ResolvePath(f, v) \notin DOMAIN disk
        /\ (DriverDone("exists") /\ dcur.filePath = f) => dres = DriverOk(<<"false">>)
        /\ (DriverDone("read") /\ dcur.filePath = f) => dres.status = "FileNotFoundError"

(* C24: writeStream is atomic with respect to the final path.  When the  *)
(* source stream errors the call rejects with that error (no exception   *)
(* escapes), the final path is as it was before the call and the         *)
(* temporary file is gone; and whatever happens the final path holds     *)
(* what it held before the call or the complete stream.                  *)
C24_WriteStreamAtomic ==
    /\ ~dhist.uncaught
    /\ dcur.op = "writeStream"
       => LET full == ResolvePath(dcur.filePath, dcur.visibility)
          IN  /\ full \in DOMAIN disk
                 => \/ disk[full] = StreamBlocks
                    \/ full \in DOMAIN dhist.pre /\ disk[full] = dhist.pre[full]
              /\ (dpc = "done" /\ dloc.source = "errored")
                 => /\ dres.status = "StreamError"
                    /\ TempPath(full) \notin DOMAIN disk
                    /\ full \in DOMAIN disk <=> full \in DOMAIN dhist.pre

(* C25: visibility change.  After setVisibility(f, v) has resolved,      *)
(* getVisibility(f) returns v, the content of f is what it was, and f is *)
(* no longer in the scope it was moved from, whatever the three scopes   *)
(* held before.                                                          *)
C25_VisibilityChange ==
    /\ (DriverDone("setVisibility") /\ dres.status = "ok")
       => /\ Located(disk, dcur.filePath) = dcur.visibility
          /\ disk[ResolvePath(dcur.filePath, dcur.visibility)]
                = dhist.pre[ResolvePath(dcur.filePath, Located(dhist.pre, dcur.filePath))]
          /\ Located(dhist.pre, dcur.filePath) # dcur.visibility
             => ResolvePath(dcur.filePath, Located(dhist.pre, dcur.filePath))
                   \notin DOMAIN disk
    /\ ( /\ DriverDone("getVisibility")
         /\ dhist.prev.op = "setVisibility" /\ dhist.prevOk
         /\ dhist.prev.filePath = dcur.filePath )
       => dres = DriverOk(<<dhist.prev.visibility>>)

(* C26: the StorageManager never hands out an unregistered disk.         *)
(* disk(name) throws for a name that was never registered, setDefault    *)
(* of such a name throws and leaves the default as it was, and the       *)
(* default disk always names a registered driver.                        *)
C26_RegisteredDisksOnly ==
    /\ defaultDisk \in DOMAIN drivers
    /\ mcur.op = "disk"
       => LET name == IF mcur.name = Undefined THEN mres.before ELSE mcur.name
          IN  IF name \in DOMAIN drivers
              THEN mres.status = "ok" /\ mres.value = drivers[name]
              ELSE mres.status = "SettingDiskError"
    /\ (mcur.op = "setDefault" /\ mcur.name \notin DOMAIN drivers)
       => /\ mres.status = "SettingDiskError"
          /\ defaultDisk = mres.before

\* index i is one the session record r may hold: not below 0 and, when the
\* total is a number, below it
InRange(r, i) == i >= 0 /\ (r.totalChunks.k = "num" => i < r.totalChunks.n)

\* chunk-<i> of session id is on disk with bytes in it
Written(id, i) == i \in DOMAIN chunks[id] /\ chunks[id][i] # <<>>

(* C27: data before metadata.  At every point in time, so at every point *)
(* a crash may happen, each index listed in a persisted metadata.json    *)
(* has its chunk file on disk, holding the complete bytes of the chunk.  *)
C27_DataBeforeMetadata ==
    \A id \in DOMAIN meta :
        meta[id] # <<>>
        => \A i \in Range(meta[id][1].receivedChunks) :
              InRange(meta[id][1], i) => Written(id, i)

\* slot q holds a receiveChunk of session id, of an index in range, that
\* has not settled
Receiving(q, id) ==
    /\ q \in InFlight
    /\ cur[q].kind = "receiveChunk"
    /\ cur[q].id = id
    /\ ~OutOfRange(q)

(* C28: finalizeUpload excludes the chunk writes in flight for its       *)
(* session.  While a finalizeUpload that passed its completeness check   *)
(* overlaps a receiveChunk of the session, every chunk file it has still *)
(* to stream is on disk and fully written, and such a finalizeUpload     *)
(* does not fail on a chunk file.                                        *)
C28_FinalizeExcludesWrites ==
    \A p, q \in Procs :
        /\ ( /\ pc[p] \in {"fu_open", "fu_copy"}
             /\ Receiving(q, cur[p].id) )
           => \A k \in 1..Len(loc[p].idxs) : Written(cur[p].id, loc[p].idxs[k])
        /\ ( /\ Done(p, "finalizeUpload")
             /\ p # q
             /\ q \in pre[p].inflight
             /\ cur[q].kind = "receiveChunk" /\ cur[q].id = cur[p].id
             /\ ~OutOfRange(q) )
           => res[p].status # "IOError"

(* C29: atomic metadata persist.  While receiveChunk persists the        *)
(* metadata of a session whose metadata.json was complete when the call  *)
(* began, metadata.json is at every point, so at every point a crash may *)
(* happen, the complete previous record or the complete new record,      *)
(* never an empty or partly written file.                                *)
C29_AtomicMetadataPersist ==
    \A p \in Procs :
        ( /\ p \in InFlight
          /\ cur[p].kind = "receiveChunk"
          /\ ~OutOfRange(p)
          /\ cur[p].id \in DOMAIN pre[p].meta
          /\ pre[p].meta[cur[p].id] # <<>> )
        => /\ cur[p].id \in DOMAIN meta
           /\ \/ meta[cur[p].id] = pre[p].meta[cur[p].id]
              \/ meta[cur[p].id] = loc[p].meta

\* the file finalizeUpload is to assemble for the session the call of slot
\* p found: its chunk files in the order of the indices
CompleteOutput(p) ==
    Assembled(pre[p].chunks[cur[p].id],
              IF HadUnbounded(p) THEN SortAsc(DOMAIN pre[p].chunks[cur[p].id])
                                 ELSE ReceivedOrder(Found(p)))

\* the target file of the call of slot p is what it was when the call
\* began, absent when it was absent
TargetAsBefore(p) ==
    IF Found(p).targetPath \in DOMAIN pre[p].targets
    THEN /\ Found(p).targetPath \in DOMAIN targets
         /\ targets[Found(p).targetPath] = pre[p].targets[Found(p).targetPath]
    ELSE Found(p).targetPath \notin DOMAIN targets

(* C30: the target path never holds a partly assembled file.  While      *)
(* finalizeUpload streams the chunks, and after a finalizeUpload that    *)
(* failed inside the copy loop, the target path is absent or unchanged,  *)
(* or it holds the complete output.                                      *)
C30_NoPartialTarget ==
    \A p \in Procs :
        ( /\ cur[p].kind = "finalizeUpload"
          /\ HadSession(p)
          /\ \/ pc[p] \in {"fu_open", "fu_copy", "fu_remove"}
             \/ pc[p] = "done" /\ res[p].status = "IOError" )
        => \/ TargetAsBefore(p)
           \/ /\ Found(p).targetPath \in DOMAIN targets
              /\ targets[Found(p).targetPath] = CompleteOutput(p)

\* the sequence s of numbers is strictly ascending: sorted, no duplicates
StrictlyAscending(s) == \A i, k \in 1..Len(s) : i < k => s[i] < s[k]

(* C31: in every persisted metadata.json the receivedChunks sequence is  *)
(* in ascending order without duplicates, whatever the arrival order of  *)
(* the chunks.                                                           *)
C31_SortedReceivedChunks ==
    \A id \in DOMAIN meta :
        meta[id] # <<>> => StrictlyAscending(meta[id][1].receivedChunks)

(* C32: no swallowed errors.  A receiveChunk or finalizeUpload whose     *)
(* chunk, metadata or target write did not complete rejects; a           *)
(* receiveChunk that has resolved, Buffer or stream payload, has its     *)
(* index in the persisted metadata and its bytes in the chunk file, and  *)
(* a finalizeUpload that has resolved has written its target.            *)
C32_NoSwallowedErrors ==
    \A p \in Procs :
        /\ (Done(p, "receiveChunk") /\ res[p].status = "ok")
           => /\ cur[p].id \in DOMAIN meta
              /\ meta[cur[p].id] # <<>>
              /\ cur[p].index \in Range(meta[cur[p].id][1].receivedChunks)
              /\ cur[p].index \in DOMAIN chunks[cur[p].id]
              /\ chunks[cur[p].id][cur[p].index] = <<cur[p].data>>
        /\ (Done(p, "finalizeUpload") /\ res[p].status = "ok")
           => res[p].path \in DOMAIN targets

(* C33: a finalizeUpload that resolves on a bounded session of           *)
(* totalChunks = N has assembled exactly the indices 0..N-1, each once   *)
(* and in ascending order, whatever indices were submitted.              *)
C33_FinalizeExactIndices ==
    \A p \in Procs :
        (Done(p, "finalizeUpload") /\ res[p].status = "ok" /\ HadBounded(p))
        => /\ Range(Found(p).receivedChunks) = 0..(Found(p).totalChunks.n - 1)
           /\ res[p].path \in DOMAIN targets
           /\ targets[res[p].path] =
                 Assembled(pre[p].chunks[cur[p].id],
                           [k \in 1..Found(p).totalChunks.n |-> k - 1])

(* C34: metadata round trip.  A session that was persisted and reloaded  *)
(* by loadSessionsFromDisk in a fresh manager has the id, originalName,  *)
(* totalChunks, received set, targetPath and visibility it had before;   *)
(* an unbounded session is still unbounded, and finalizeUpload on the    *)
(* reloaded session resolves.                                            *)
C34_MetadataRoundTrip ==
    /\ rec.at = "loaded"
       => \A id \in DOMAIN rec.sessions :
             /\ id \in DOMAIN sessions
             /\ SameFields(sessions[id], rec.sessions[id])
    /\ \A p \in Procs :
          ( /\ Done(p, "finalizeUpload")
            /\ HadSession(p)
            /\ jr[cur[p].id].total = Infinity
            /\ pre[p].life = "restarted" )
          => res[p].status = "ok"

(* C35: memory is a faithful cache of disk.  Whenever no call is in      *)
(* flight, every session of the table has a metadata.json whose          *)
(* receivedChunks list holds exactly the indices of the received set in  *)
(* memory, also after calls that overlapped.                             *)
C35_MemoryMatchesDisk ==
    InFlight = {}
    => \A id \in DOMAIN sessions :
          /\ id \in DOMAIN meta
          /\ meta[id] # <<>>
          /\ Range(meta[id][1].receivedChunks) = Range(sessions[id].receivedChunks)

(* C36: a newly started session is empty on disk as well as in memory.   *)
(* When startSession(id, ...) has resolved, the session directory holds  *)
(* no chunk file left over from an earlier session of the same id.       *)
C36_FreshSessionEmpty ==
    \A p \in Procs :
        (Done(p, "startSession") /\ res[p].status = "ok" /\ pre[p].inflight = {})
        => chunks[cur[p].id] = <<>>

(* C37: at most one finalize wins.  Of two finalizeUpload calls for one  *)
(* session that overlap at most one resolves, and while the other is    *)
(* still in flight or has settled the target file the winner produced    *)
(* is neither truncated nor rewritten.                                   *)
C37_OneFinalizeWins ==
    \A p, q \in Procs :
        ( /\ p # q
          /\ Done(p, "finalizeUpload") /\ res[p].status = "ok"
          /\ cur[q].kind = "finalizeUpload" /\ cur[q].id = cur[p].id
          /\ q \in pre[p].inflight )
        => /\ ~(pc[q] = "done" /\ res[q].status = "ok")
           /\ res[p].path \in DOMAIN targets
           /\ targets[res[p].path] = CompleteOutput(p)

\* the chunk order finalizeUpload would take for the session of id now
OrderNow(id) ==
    IF sessions[id].totalChunks = Infinity THEN DirectoryOrder(id)
    ELSE ReceivedOrder(sessions[id])

\* finalizeUpload(id) called now would pass its checks, find every chunk
\* file it streams, and assemble the complete output
Rerunnable(id) ==
    /\ id \in DOMAIN sessions
    /\ sessions[id].totalChunks = Infinity \/ ~Incomplete(sessions[id])
    /\ \A i \in Range(OrderNow(id)) : Written(id, i)
    /\ Assembled(chunks[id], OrderNow(id)) = Ascending(jr[id])

\* finalizeUpload(id) called now would open, and so truncate, the target
Reopens(id) ==
    /\ id \in DOMAIN sessions
    /\ sessions[id].totalChunks = Infinity \/ ~Incomplete(sessions[id])

(* C38: a crash at any point of finalizeUpload loses no upload.  After   *)
(* the restart and loadSessionsFromDisk either the target file holds the *)
(* complete output, or the session is registered again with all of its   *)
(* chunk files so that finalizeUpload can be run again and produces the  *)
(* complete output; and a finalizeUpload run again does not destroy a    *)
(* target that is already complete.                                      *)
C38_CrashLosesNoUpload ==
    \A p \in Procs :
        (Done(p, "loadSessionsFromDisk") /\ res[p].status = "ok" /\ rec.at = "crashed")
        => \A id \in DOMAIN rec.sessions :
              LET t == rec.sessions[id].targetPath
                  complete == t \in DOMAIN targets /\ targets[t] = Ascending(jr[id])
              IN  /\ complete \/ Rerunnable(id)
                  /\ (complete /\ Reopens(id)) => Rerunnable(id)

\* what the manager and the disk hold for the session of id: its table
\* entry, its metadata.json, its chunk files and its target
SessionState(id) ==
    [entry |-> IF id \in DOMAIN sessions THEN <<sessions[id]>> ELSE <<>>,
     metadata |-> IF getSessionDir(id) \in DOMAIN meta
                  THEN <<meta[getSessionDir(id)]>> ELSE <<>>,
     files |-> chunks[getSessionDir(id)],
     output |-> IF id \in DOMAIN sessions /\ sessions[id].targetPath \in DOMAIN targets
                THEN <<targets[sessions[id].targetPath]>> ELSE <<>>]

(* C39: session isolation.  A step of startSession, receiveChunk,        *)
(* finalizeUpload or abortSession on session A leaves every other        *)
(* registered session B as it was: its table entry, its metadata.json,   *)
(* its chunk files and the file at its target path.                      *)
C39_SessionIsolation ==
    [][\A p \in Procs, B \in AllIds :
          ( /\ pc'[p] # pc[p] \/ cur'[p] # cur[p]
            /\ B \in DOMAIN sessions
            /\ B # (IF pc[p] \in {"idle", "done"} THEN cur'[p].id ELSE cur[p].id) )
          => SessionState(B)' = SessionState(B)]_vars

====
